---------------------------- MODULE Spec2Model ----------------------------
(***************************************************************************)
(* The streaming relay handler of api/ai.js as a state machine.            *)
(*                                                                         *)
(* A JavaScript string is a sequence of symbols.  A symbol is one          *)
(* character, except for the text the handler never looks into: a JSON     *)
(* lexeme (the fixed opening and closing part of a payload) or a fixed     *)
(* message is one symbol.  The prefix 'data: ', the line separator, the    *)
(* whitespace and the text carried by a payload are single characters, so  *)
(* a chunk boundary can fall inside the prefix, between prefix and         *)
(* payload, inside the payload text and before the line separator.         *)
(*                                                                         *)
(* One action is one run-to-completion step of the handler: from its entry *)
(* or from the settling of the promise it awaits to its next await or      *)
(* return.                                                                 *)
(*                                                                         *)
(* Beside the relay stand the session tokens of api/auth.js, the digest    *)
(* cache of api/learn.js and pushFile of api/github.js and github.js, each *)
(* with variables and a specification of its own.                          *)
(***************************************************************************)
EXTENDS Integers, Sequences, FiniteSets, TLC

VARIABLES
    req,        \* the request: method, x-agent-token, body fields
    env,        \* process.env: AGENT_API_KEY, GEMINI_API_KEY, OPENAI_API_KEY
    now,        \* Date.now() at the time of the request
    pc,         \* where the handler is: start, fetch, text, read, done
    status,     \* res.statusCode
    sse,        \* the streaming headers have been set (ai.js 28-31)
    out,        \* what the handler has written to res, in order
    ended,      \* res.end() has been called (or res.json / res.end)
    fetched,    \* the upstream requests issued by fetch
    upStatus,   \* the status of the upstream response (0: none yet)
    errText,    \* <<body>> once the body of a rejected response is read
    upLines,    \* the terminated lines the upstream sends before end-of-stream
    upTail,     \* what it sends after them, with no line separator
    readPos,    \* how many of them reader.read() has delivered
    buffer,     \* the handler's line buffer
    connected,  \* the downstream client is still there
    received,   \* how many of the events of out reached the client
    stalled,    \* the upstream has gone silent for good
    upBody,     \* upstream.body: none, open, closed (read to its end), errored
    other,      \* the suspended call of the handler, if two calls are in flight
    loopLines,  \* lines, the array of the for loop, while the loop runs
    loopPos,    \* how many of its lines the loop has gone through
    signed,     \* <<[payload, secret]>> once signToken has issued a token
    presented,  \* the token a client presents: its dot-separated parts
    verified,   \* <<[token, at, result]>> once verifyToken has returned
    profile,    \* profile_json of the user's row of the table profiles
    interactions, \* the number of rows of the user in the table interactions
    generated,  \* how often generateWeeklyDigest has been invoked
    cached,     \* <<[digest, at]>>: the digest last written into the profile
    answer,     \* the last response of /api/learn
    served,     \* the file whose handler serves /api/github
    pushPc,     \* where pushFile is: start, lookup, put, done
    shaStatus,  \* the status of the answer to the SHA lookup (0: none yet)
    shaData,    \* the body of that answer
    sha,        \* let sha: <<>> for null
    puts,       \* the bodies of the PUT requests sent to the repository
    pushRes     \* the status of the response of pushFile (0: none yet)

\* the state of a call of the relay, but for the clock
relayVars == <<req, env, pc, status, sse, out, ended, fetched, upStatus,
               errText, upLines, upTail, readPos, buffer, connected, received,
               stalled, upBody, other, loopLines, loopPos>>

\* the state of the session tokens (api/auth.js)
tokenVars == <<signed, presented, verified>>

\* the state of the learning engine (api/learn.js)
learnVars == <<profile, interactions, generated, cached, answer>>

\* the state of pushFile (api/github.js, github.js)
pushVars == <<served, pushPc, shaStatus, shaData, sha, puts, pushRes>>

\* the state of the endpoints beside the relay
apart == <<tokenVars, learnVars, pushVars>>

vars == <<req, env, now, pc, status, sse, out, ended, fetched, upStatus,
          errText, upLines, upTail, readPos, buffer, connected, received,
          stalled, upBody, other, loopLines, loopPos, apart>>

-----------------------------------------------------------------------------
(* Bounds of the model.                                                    *)

\* the number of lines of an upstream stream
MaxLines == 2

\* the number of lines of a stream when the for loop is taken line by line
MaxLoopLines == 3

-----------------------------------------------------------------------------
(* Strings.                                                                *)

NL == "\n"

Min(S) == CHOOSE x \in S : \A y \in S : x <= y

Max(S) == CHOOSE x \in S : \A y \in S : x >= y

\* String.prototype.startsWith
StartsWith(s, p) == Len(s) >= Len(p) /\ SubSeq(s, 1, Len(p)) = p

\* String.prototype.slice(n)
Slice(s, n) == SubSeq(s, n + 1, Len(s))

IsSpace(c) == c \in {" ", "\t", "\r", NL}

\* String.prototype.trim
Trim(s) ==
    LET keep == {i \in 1..Len(s) : ~IsSpace(s[i])}
    IN  IF keep = {} THEN <<>> ELSE SubSeq(s, Min(keep), Max(keep))

\* String.prototype.toLowerCase, on the letters the model uses
LowerChar(c) ==
    CASE c = "Q" -> "q" [] c = "U" -> "u" [] c = "O" -> "o"
      [] c = "T" -> "t" [] c = "A" -> "a" [] OTHER -> c

ToLowerCase(s) == [i \in 1..Len(s) |-> LowerChar(s[i])]

\* String.prototype.includes
Includes(s, sub) ==
    \E i \in 0..(Len(s) - Len(sub)) : SubSeq(s, i + 1, i + Len(sub)) = sub

\* String.prototype.split('\n'): n separators give n + 1 segments
RECURSIVE Split(_)
Split(s) ==
    LET nl == {i \in 1..Len(s) : s[i] = NL}
    IN  IF nl = {} THEN <<s>>
        ELSE <<SubSeq(s, 1, Min(nl) - 1)>> \o Split(Slice(s, Min(nl)))

\* Array.prototype.pop: the array without its last element
Front(a) == SubSeq(a, 1, Len(a) - 1)

Last(a) == a[Len(a)]

-----------------------------------------------------------------------------
(* JSON values and JSON.parse.                                             *)

Undefined == [t |-> "undefined"]

JNull == [t |-> "null"]

JStr(s) == [t |-> "string", s |-> s]

JArr(a) == [t |-> "array", a |-> a]

JObj(f) == [t |-> "object", f |-> f]

\* the lexemes of the payloads and bodies the upstream sends
GOpen == "{\"candidates\":[{\"content\":{\"parts\":[{\"text\":\""

GClose == "\"}]}}]}"

OOpen == "{\"choices\":[{\"delta\":{\"content\":\""

OClose == "\"}}]}"

EOpen == "{\"error\":{\"message\":\""

EClose == "\"}}"

\* whole payloads that carry no text at the path of their adapter, with the
\* values they parse to: no candidate, a candidate without content, content
\* without parts, parts without a part; no choice, a choice without delta,
\* a delta without content, null content
MetadataValues ==
    ("{\"candidates\":[]}" :> JObj([candidates |-> JArr(<<>>)]))
    @@ ("{\"candidates\":[{\"finishReason\":\"STOP\"}]}" :>
            JObj([candidates |->
                JArr(<<JObj([finishReason |-> JStr(<<"STOP">>)])>>)]))
    @@ ("{\"candidates\":[{\"content\":{\"role\":\"model\"}}]}" :>
            JObj([candidates |-> JArr(<<JObj([content |->
                JObj([role |-> JStr(<<"model">>)])])>>)]))
    @@ ("{\"candidates\":[{\"content\":{\"parts\":[]}}]}" :>
            JObj([candidates |-> JArr(<<JObj([content |->
                JObj([parts |-> JArr(<<>>)])])>>)]))
    @@ ("{\"choices\":[]}" :> JObj([choices |-> JArr(<<>>)]))
    @@ ("{\"choices\":[{\"finish_reason\":\"stop\"}]}" :>
            JObj([choices |->
                JArr(<<JObj([finish_reason |-> JStr(<<"stop">>)])>>)]))
    @@ ("{\"choices\":[{\"delta\":{}}]}" :>
            JObj([choices |-> JArr(<<JObj([delta |-> JObj(<<>>)])>>)]))
    @@ ("{\"choices\":[{\"delta\":{\"content\":null}}]}" :>
            JObj([choices |->
                JArr(<<JObj([delta |-> JObj([content |-> JNull])])>>)]))

Lexemes ==
    {GOpen, GClose, OOpen, OClose, EOpen, EClose, "{}", "null", "[DONE]"}
        \cup DOMAIN MetadataValues

\* a character that stands for itself inside a JSON string literal
IsStringChar(c) == c \notin Lexemes /\ c \notin {NL, "\r", "\t", "\"", "\\"}

IsStringBody(s) == \A i \in 1..Len(s) : IsStringChar(s[i])

Inner(s) == SubSeq(s, 2, Len(s) - 1)

Between(s, open, close) ==
    Len(s) >= 2 /\ s[1] = open /\ s[Len(s)] = close /\ IsStringBody(Inner(s))

\* JSON.parse: [ok |-> TRUE, v |-> value], or ok = FALSE when it throws
ParseJSON(s) ==
    CASE s = <<"{}">> -> [ok |-> TRUE, v |-> JObj(<<>>)]
      [] s = <<"null">> -> [ok |-> TRUE, v |-> JNull]
      [] Len(s) = 1 /\ s[1] \in DOMAIN MetadataValues ->
            [ok |-> TRUE, v |-> MetadataValues[s[1]]]
      [] Between(s, GOpen, GClose) ->
            [ok |-> TRUE, v |-> JObj([candidates |-> JArr(<<JObj([content |->
                JObj([parts |-> JArr(<<JObj([text |-> JStr(Inner(s))])>>)])])>>)])]
      [] Between(s, OOpen, OClose) ->
            [ok |-> TRUE, v |-> JObj([choices |-> JArr(<<JObj([delta |->
                JObj([content |-> JStr(Inner(s))])])>>)])]
      [] Between(s, EOpen, EClose) ->
            [ok |-> TRUE, v |-> JObj([error |-> JObj([message |-> JStr(Inner(s))])])]
      [] OTHER -> [ok |-> FALSE, v |-> Undefined]

\* v.k on a value that is neither null nor undefined
Prop(v, k) ==
    IF v.t = "object" /\ k \in DOMAIN v.f THEN v.f[k] ELSE Undefined

\* v?.k
OptProp(v, k) == IF v.t \in {"undefined", "null"} THEN Undefined ELSE Prop(v, k)

\* v?.[0]
OptFirst(v) ==
    CASE v.t = "array" /\ Len(v.a) >= 1 -> v.a[1]
      [] v.t = "string" /\ Len(v.s) >= 1 -> JStr(<<v.s[1]>>)
      [] OTHER -> Undefined

\* the truthiness of a value
Truthy(v) ==
    CASE v.t = "string" -> v.s # <<>>
      [] v.t \in {"object", "array"} -> TRUE
      [] OTHER -> FALSE

-----------------------------------------------------------------------------
(* Session tokens (auth.js), as far as authenticate needs them.  A token   *)
(* is the sequence of its dot-separated parts; the HMAC of data under a    *)
(* secret is the pair of them, so two signatures agree exactly when both   *)
(* the secret and the data agree.                                          *)

NoPayload == [sub |-> <<>>, exp |-> 0]

Base64Url(data) == [enc |-> "base64url", data |-> data, secret |-> <<>>]

HmacHex(secret, data) == [enc |-> "hex", data |-> data, secret |-> secret]

signToken(payload, secret) == <<Base64Url(payload), HmacHex(secret, payload)>>

\* the same bytes written in the standard alphabet with padding, which
\* Buffer.from(string, 'base64url') reads as it reads the unpadded form
Base64Padded(data) == [enc |-> "base64", data |-> data, secret |-> <<>>]

\* Buffer.from(parts[0], 'base64url').toString('utf8'): the data of base64
\* text, and of another part bytes that are no JSON document
FromBase64Url(part) ==
    IF part.enc \in {"base64url", "base64"} THEN part.data
    ELSE [bytes |-> part]

\* the signature is not compared
verifyTokenUnsigned(token, secret, time) ==
    IF token = <<>> \/ Len(token) # 2
    THEN [ok |-> FALSE, payload |-> NoPayload]
    ELSE LET data == FromBase64Url(token[1])
         IN  IF "bytes" \in DOMAIN data \/ time > data.exp
             THEN [ok |-> FALSE, payload |-> NoPayload]
             ELSE [ok |-> TRUE, payload |-> data]

\* verifyToken: [ok |-> TRUE, payload |-> p], or ok = FALSE for null
verifyToken(token, secret, time) ==
    IF token = <<>> \/ Len(token) # 2
    THEN [ok |-> FALSE, payload |-> NoPayload]
    ELSE LET data == FromBase64Url(token[1])
             expected == HmacHex(secret, data)
         IN  IF token[2] # expected \/ "bytes" \in DOMAIN data
             THEN [ok |-> FALSE, payload |-> NoPayload]
             ELSE IF time > data.exp
             THEN [ok |-> FALSE, payload |-> NoPayload]
             ELSE [ok |-> TRUE, payload |-> data]

-----------------------------------------------------------------------------
(* What the handler writes to the response.                                *)

\* send(text): 'data: ' + JSON.stringify({ t: text }) + '\n\n'
FragmentEvent(text) == [kind |-> "fragment", text |-> text]

\* sendError(msg): 'data: ' + JSON.stringify({ error: msg }) + '\n\n'
ErrorEvent(msg) == [kind |-> "error", text |-> msg]

\* sendDone(): 'data: [DONE]\n\n'
DoneEvent == [kind |-> "done", text |-> <<>>]

\* res.status(code).json({ error: msg })
JsonBody(msg) == [kind |-> "json", text |-> msg]

\* err.message || 'Internal server error'
CaughtMessage(message) ==
    IF message # <<>> THEN message ELSE <<"Internal server error">>

-----------------------------------------------------------------------------
(* The delta extractor.                                                    *)

DataPrefix == <<"d", "a", "t", "a", ":", " ">>

\* chunk.candidates?.[0]?.content?.parts?.[0]?.text
GeminiPath(chunk) ==
    OptProp(OptFirst(OptProp(OptProp(OptFirst(Prop(chunk, "candidates")),
                                     "content"), "parts")), "text")

\* chunk.choices?.[0]?.delta?.content
OpenAIPath(chunk) ==
    OptProp(OptProp(OptFirst(Prop(chunk, "choices")), "delta"), "content")

\* every string found at the path is sent, the empty one too
ExtractTextAnyString(provider, chunk) ==
    IF chunk.t = "null" THEN <<>>
    ELSE LET text == IF provider = <<"gemini">> THEN GeminiPath(chunk)
                     ELSE OpenAIPath(chunk)
         IN  IF text.t = "string" THEN <<FragmentEvent(text.s)>> ELSE <<>>

\* the body of the try block: the fragments one parsed payload gives.  On
\* null the first property access throws, and the catch skips the line.
ExtractText(provider, chunk) ==
    IF chunk.t = "null" THEN <<>>
    ELSE LET text == IF provider = <<"gemini">> THEN GeminiPath(chunk)
                     ELSE OpenAIPath(chunk)
         IN  IF Truthy(text) THEN <<FragmentEvent(text.s)>> ELSE <<>>

\* a payload that does not parse is reported
ReportMalformed == <<ErrorEvent(<<"Unexpected token">>)>>

\* catch(e) { /* skip malformed chunk */ }
SkipMalformed == <<>>

\* the sentinel is answered with the completion marker
ProcessLineDoneAtSentinel(provider, line) ==
    IF ~StartsWith(line, DataPrefix) THEN <<>>
    ELSE LET raw == Trim(Slice(line, 6))
         IN  IF raw = <<>> THEN <<>>
             ELSE IF raw = <<"[DONE]">> THEN <<DoneEvent>>
             ELSE LET parsed == ParseJSON(raw)
                  IN  IF parsed.ok THEN ExtractText(provider, parsed.v)
                      ELSE SkipMalformed

\* every line that begins with 'data:' is taken for a payload line
ProcessLineAnyData(provider, line) ==
    IF ~StartsWith(line, <<"d", "a", "t", "a", ":">>) THEN <<>>
    ELSE LET raw == Trim(Slice(line, 5))
         IN  IF raw = <<>> \/ raw = <<"[DONE]">> THEN <<>>
             ELSE LET OfChunk[parsed \in {ParseJSON(raw)}] ==
                          IF parsed.ok THEN ExtractText(provider, parsed.v)
                          ELSE SkipMalformed
                  IN  OfChunk[ParseJSON(raw)]

\* one pass of the for loop over a decoded line.  The payload is parsed
\* once: the result of JSON.parse is the argument of a function.
ProcessLine(provider, line) ==
    IF ~StartsWith(line, DataPrefix) THEN <<>>
    ELSE LET raw == Trim(Slice(line, 6))
         IN  IF raw = <<>> \/ raw = <<"[DONE]">> THEN <<>>
             ELSE LET OfChunk[parsed \in {ParseJSON(raw)}] ==
                          IF parsed.ok THEN ExtractText(provider, parsed.v)
                          ELSE SkipMalformed
                  IN  OfChunk[ParseJSON(raw)]

RECURSIVE ProcessLines(_, _)
ProcessLines(provider, lines) ==
    IF lines = <<>> THEN <<>>
    ELSE ProcessLine(provider, lines[1]) \o ProcessLines(provider, Tail(lines))

\* the buffer is reset after every chunk
DropIncomplete(lines) == <<>>

\* buffer = lines.pop()
KeepIncomplete(lines) == Last(lines)

\* the last complete line of a chunk is left out of the loop
CompleteLinesButLast(lines) ==
    IF Len(lines) >= 2 THEN SubSeq(lines, 1, Len(lines) - 2) ELSE <<>>

\* for (const line of lines), after the pop
CompleteLines(lines) == Front(lines)

-----------------------------------------------------------------------------
(* The error classifier: what the handler reports for a rejected request.  *)

Quota == <<"q", "u", "o", "t", "a">>

\* the message of a body that gives none quotes the request
ErrMsgOfRequest(default, body) ==
    LET parsed == ParseJSON(body)
    IN  IF ~parsed.ok \/ parsed.v.t = "null" THEN default \o req.userMessage
        ELSE LET message == OptProp(Prop(parsed.v, "error"), "message")
             IN  IF Truthy(message) THEN message.s
                 ELSE default \o req.userMessage

\* try { const j = JSON.parse(errText); errMsg = j.error?.message || errMsg; }
\* catch(e) {}
ErrMsg(default, body) ==
    LET parsed == ParseJSON(body)
    IN  IF ~parsed.ok \/ parsed.v.t = "null" THEN default
        ELSE LET message == OptProp(Prop(parsed.v, "error"), "message")
             IN  IF Truthy(message) THEN message.s ELSE default

\* the marker is required in addition to the status
GeminiIsQuotaBoth(code, errMsg) ==
    code = 429 /\ Includes(ToLowerCase(errMsg), Quota)

\* upstream.status === 429 || errMsg.toLowerCase().includes('quota')
GeminiIsQuota(code, errMsg) ==
    code = 429 \/ Includes(ToLowerCase(errMsg), Quota)

\* ai.js 73-79
GeminiRejection(code, body) ==
    LET errMsg == ErrMsg(<<"Gemini error HTTP ", ToString(code)>>, body)
    IN  IF GeminiIsQuota(code, errMsg) THEN ErrorEvent(<<"QUOTA:">> \o errMsg)
        ELSE ErrorEvent(errMsg)

\* ai.js 126-131
OpenAIRejection(code, body) ==
    LET errMsg == ErrMsg(<<"OpenAI error HTTP ", ToString(code)>>, body)
    IN  IF code = 429 THEN ErrorEvent(<<"QUOTA:">> \o errMsg)
        ELSE IF code = 401 THEN ErrorEvent(<<"Invalid OpenAI API key.">>)
        ELSE ErrorEvent(errMsg)

\* only a server error is taken for a rejection
OkBelow500(code) == code \in 200..499

\* Response.ok
Ok(code) == code \in 200..299

-----------------------------------------------------------------------------
(* The upstream requests the adapters build.                                *)

Turn(role, text) == [role |-> role, text |-> text]

\* the prior turns are sent with the roles they came with
GeminiHistoryKept(history) == history

RECURSIVE GeminiHistory(_)
GeminiHistory(history) ==
    IF history = <<>> THEN <<>>
    ELSE <<Turn(IF history[1].role = "assistant" THEN "model" ELSE "user",
                history[1].text)>> \o GeminiHistory(Tail(history))

\* ai.js 53-61
GeminiContents(r) ==
    (IF r.systemPrompt # <<>>
     THEN <<Turn("user", r.systemPrompt), Turn("model", <<"Understood.">>)>>
     ELSE <<>>)
    \o GeminiHistory(r.history) \o <<Turn("user", r.userMessage)>>

\* the prior turns are sent with the roles of the other adapter
OpenAIMessagesMapped(r) ==
    (IF r.systemPrompt # <<>> THEN <<Turn("system", r.systemPrompt)>> ELSE <<>>)
    \o GeminiHistory(r.history) \o <<Turn("user", r.userMessage)>>

\* ai.js 114-117
OpenAIMessages(r) ==
    (IF r.systemPrompt # <<>> THEN <<Turn("system", r.systemPrompt)>> ELSE <<>>)
    \o r.history \o <<Turn("user", r.userMessage)>>

\* ai.js 63-70
GeminiFetch(r, apiKey) ==
    [url |-> "generativelanguage.googleapis.com:streamGenerateContent?alt=sse",
     apiKey |-> apiKey, messages |-> GeminiContents(r), stream |-> FALSE]

\* ai.js 119-123
OpenAIFetch(r, apiKey) ==
    [url |-> "api.openai.com/v1/chat/completions",
     apiKey |-> apiKey, messages |-> OpenAIMessages(r), stream |-> TRUE]

-----------------------------------------------------------------------------
(* The inputs: requests, environments, upstream answers.                   *)

Secret == <<"k1">>

OtherSecret == <<"k2">>

Now0 == 1

Methods == {"OPTIONS", "GET", "POST"}

Tokens ==
    { <<>>,
      signToken([sub |-> <<"admin">>, exp |-> Now0 + 1], Secret),
      signToken([sub |-> <<"admin">>, exp |-> Now0 - 1], Secret),
      signToken([sub |-> <<"admin">>, exp |-> Now0 + 1], OtherSecret),
      <<Base64Url([sub |-> <<"admin">>, exp |-> Now0 + 1])>> }

Providers == {<<>>, <<"gemini">>, <<"openai">>, <<"claude">>}

UserMessages == {<<>>, <<"h", "i">>}

SystemPrompts == {<<>>}

Histories == {<<>>}

Requests ==
    [method : Methods, token : Tokens, provider : Providers,
     systemPrompt : SystemPrompts, history : Histories,
     userMessage : UserMessages]

EnvOf(agent, gemini, openai) ==
    [AGENT_API_KEY |-> agent, GEMINI_API_KEY |-> gemini, OPENAI_API_KEY |-> openai]

\* no AGENT_API_KEY; the key of one provider only
Envs ==
    { EnvOf(<<>>, <<"gk">>, <<"ok">>),
      EnvOf(Secret, <<"gk">>, <<>>), EnvOf(Secret, <<>>, <<"ok">>) }

UpStatuses == {200, 400, 401, 403, 429, 500}

ErrorBodies ==
    { <<>>, <<"<html>">>, <<"{}">>, <<"null">>,
      <<EOpen, "Q", "u", "o", "t", "a", EClose>>,
      <<EOpen, "b", "a", "d", EClose>>,
      <<EOpen, EClose>> }

\* the message of a rejected fetch or body read
NetErrors == {<<"fetch failed">>, <<>>}

\* the message of a rejected stream read
ReadErrors == {<<"terminated">>}

Open(provider) == IF provider = <<"gemini">> THEN GOpen ELSE OOpen

Close(provider) == IF provider = <<"gemini">> THEN GClose ELSE OClose

Texts == {<<"a", "b">>, <<"c">>}

\* a well-formed payload line of the adapter, carrying text
PayloadLine(provider, text) ==
    DataPrefix \o <<Open(provider)>> \o text \o <<Close(provider)>>

Foreign(provider) ==
    IF provider = <<"gemini">> THEN <<"openai">> ELSE <<"gemini">>

\* the lines that carry nothing for the adapter
NoiseLines(provider) ==
    { <<>>,                                                \* blank separator
      <<"d", "a", "t", "a", ":", Open(provider), "c", Close(provider)>>,
                                                           \* wrong prefix
      DataPrefix \o <<Open(provider), "c">>,               \* payload cut short
      DataPrefix \o <<"[DONE]">>,                          \* the sentinel
      DataPrefix \o <<Open(provider), Close(provider)>>,   \* empty text
      DataPrefix \o <<"null">>,                            \* no object at all
      PayloadLine(Foreign(provider), <<"c">>) }            \* no text at the path

\* a payload line of a stream whose lines end in CR LF
CrLine(provider) == PayloadLine(provider, <<"c">>) \o <<"\r">>

LineKinds(provider) ==
    {PayloadLine(provider, <<"a", "b">>), CrLine(provider)}
        \cup NoiseLines(provider)

Scripts(provider) ==
    UNION {[1..n -> LineKinds(provider)] : n \in 0..MaxLines}

Tails(provider) == {<<>>, PayloadLine(provider, <<"c">>)}

\* a stream of two payload lines, or of one
ShortScripts(provider) ==
    { <<PayloadLine(provider, <<"a", "b">>), PayloadLine(provider, <<"c">>)>>,
      <<PayloadLine(provider, <<"c">>)>> }

RECURSIVE Flatten(_)
Flatten(lines) ==
    IF lines = <<>> THEN <<>>
    ELSE lines[1] \o <<NL>> \o Flatten(Tail(lines))

\* the bytes of the upstream stream
UpBytes == Flatten(upLines) \o upTail

-----------------------------------------------------------------------------
(* The handler.                                                            *)

\* no token has been issued, presented or verified; no profile, no
\* interaction, no digest and no response of the learning engine yet
OthersAtRest ==
    /\ signed = <<>>
    /\ presented = <<>>
    /\ verified = <<>>
    /\ profile = JNull
    /\ interactions = 0
    /\ generated = 0
    /\ cached = <<>>
    /\ answer = [action |-> "none"]

\* pushFile has not been called
PushIdle ==
    /\ pushPc = "start"
    /\ shaStatus = 0
    /\ shaData = "none"
    /\ sha = <<>>
    /\ puts = <<>>
    /\ pushRes = 0

\* the endpoints beside the relay have not been called
ApartAtRest == OthersAtRest /\ served = "src/api/github.js" /\ PushIdle

Init ==
    /\ req \in Requests
    /\ env \in Envs
    /\ now = Now0
    /\ pc = "start"
    /\ status = 200
    /\ sse = FALSE
    /\ out = <<>>
    /\ ended = FALSE
    /\ fetched = <<>>
    /\ upStatus = 0
    /\ errText = <<>>
    /\ upLines = <<>>
    /\ upTail = <<>>
    /\ readPos = 0
    /\ buffer = <<>>
    /\ connected = TRUE
    /\ received = 0
    /\ stalled = FALSE
    /\ upBody = "none"
    /\ other = <<>>
    /\ loopLines = <<>>
    /\ loopPos = 0
    /\ ApartAtRest

\* res.write: the events are written; the client gets them while it is there
Write(events) ==
    /\ out' = out \o events
    /\ received' = IF connected THEN Len(out) + Len(events) ELSE received

\* res.status(code).json({ error: msg }), and the handler returns
Json(code, msg) ==
    /\ status' = code
    /\ Write(<<JsonBody(msg)>>)
    /\ ended' = TRUE
    /\ pc' = "done"

\* the error reported by the branch and once more by the catch
SendErrorTwice(event) ==
    /\ Write(<<event, event>>)
    /\ ended' = TRUE
    /\ pc' = "done"

\* the error event is written and the response is left open
SendErrorNoEnd(event) ==
    /\ Write(<<event>>)
    /\ UNCHANGED ended
    /\ pc' = "done"

\* sendError(msg), and the handler returns
SendError(event) ==
    /\ Write(<<event>>)
    /\ ended' = TRUE
    /\ pc' = "done"

\* the stream is ended without the completion marker
SendDoneSilent == <<>>

\* what is left in the buffer is taken for a last line
SendDoneAfterFlush == ProcessLine(req.provider, buffer) \o <<DoneEvent>>

\* the events of sendDone()
SendDone == <<DoneEvent>>

Unauthorized ==
    <<"Unauthorized. Session invalid or expired - please log in again.">>

\* authenticate(req, res): "ok", or the status and message of its response
Authenticate ==
    IF env.AGENT_API_KEY = <<>>
    THEN [ok |-> FALSE, code |-> 500, msg |-> <<"AGENT_API_KEY not set.">>]
    ELSE IF ~verifyToken(req.token, env.AGENT_API_KEY, now).ok
    THEN [ok |-> FALSE, code |-> 401, msg |-> Unauthorized]
    ELSE [ok |-> TRUE, code |-> 200, msg |-> <<>>]

\* both branches read the same variable
ProviderKeyCopied(provider) == env.OPENAI_API_KEY

\* process.env.GEMINI_API_KEY / process.env.OPENAI_API_KEY
ProviderKey(provider) ==
    IF provider = <<"gemini">> THEN env.GEMINI_API_KEY ELSE env.OPENAI_API_KEY

\* whatever is not 'gemini' is taken for 'openai'
RelayElseOpenAI ==
    IF ProviderKey(req.provider) = <<>>
    THEN /\ SendError(ErrorEvent(
               IF req.provider = <<"gemini">>
               THEN <<"GEMINI_API_KEY not configured.">>
               ELSE <<"OPENAI_API_KEY not configured.">>))
         /\ UNCHANGED fetched
    ELSE /\ fetched' = Append(fetched,
               IF req.provider = <<"gemini">>
               THEN GeminiFetch(req, ProviderKey(req.provider))
               ELSE OpenAIFetch(req, ProviderKey(req.provider)))
         /\ pc' = "fetch"
         /\ UNCHANGED <<out, received, ended>>

\* ai.js 46-160, up to the first await: the provider branch
Relay ==
    IF req.provider \in {<<"gemini">>, <<"openai">>}
    THEN IF ProviderKey(req.provider) = <<>>
         THEN /\ SendError(ErrorEvent(
                    IF req.provider = <<"gemini">>
                    THEN <<"GEMINI_API_KEY not configured.">>
                    ELSE <<"OPENAI_API_KEY not configured.">>))
              /\ UNCHANGED fetched
         ELSE /\ fetched' = Append(fetched,
                    IF req.provider = <<"gemini">>
                    THEN GeminiFetch(req, ProviderKey(req.provider))
                    ELSE OpenAIFetch(req, ProviderKey(req.provider)))
              /\ pc' = "fetch"
              /\ UNCHANGED <<out, received, ended>>
    ELSE /\ SendError(ErrorEvent(<<"Invalid provider. Use 'gemini' or 'openai'.">>))
         /\ UNCHANGED fetched

\* ai.js 14-70: from the call of the handler to its first await or return
HandlerEntry ==
    /\ pc = "start"
    /\ IF req.method = "OPTIONS"
       THEN /\ pc' = "done"
            /\ ended' = TRUE
            /\ UNCHANGED <<status, out, received, sse, fetched>>
       ELSE IF req.method # "POST"
       THEN Json(405, <<"Method not allowed">>) /\ UNCHANGED <<sse, fetched>>
       ELSE IF ~Authenticate.ok
       THEN Json(Authenticate.code, Authenticate.msg) /\ UNCHANGED <<sse, fetched>>
       ELSE IF req.userMessage = <<>>
       THEN Json(400, <<"userMessage is required">>) /\ UNCHANGED <<sse, fetched>>
       ELSE IF req.provider = <<>>
       THEN Json(400, <<"provider is required">>) /\ UNCHANGED <<sse, fetched>>
       ELSE sse' = TRUE /\ Relay /\ UNCHANGED status
    /\ UNCHANGED <<apart, req, env, now, upStatus, errText, upLines, upTail, readPos,
                   buffer, connected, stalled, upBody, other, loopLines,
                   loopPos>>

\* await fetch(...) resolves: ai.js 72 / 83-85, 125 / 134-136
FetchResolvesWith(codes, scripts, tails) ==
    /\ pc = "fetch"
    /\ ~stalled
    /\ \E code \in codes :
        /\ upStatus' = code
        /\ IF Ok(code)
           THEN /\ pc' = "read"
                /\ upLines' \in scripts
                /\ upTail' \in tails
           ELSE /\ pc' = "text"
                /\ UNCHANGED <<upLines, upTail>>
    /\ buffer' = <<>>
    /\ upBody' = "open"
    /\ UNCHANGED <<apart, req, env, now, status, sse, out, ended, fetched, errText,
                   readPos, connected, received, stalled, other, loopLines,
                   loopPos>>

FetchResolvesFrom(scripts, tails) ==
    FetchResolvesWith(UpStatuses, scripts, tails)

FetchResolves == FetchResolvesFrom(Scripts(req.provider), Tails(req.provider))

\* await fetch(...) rejects: the catch of ai.js 162-165
FetchRejects ==
    /\ pc = "fetch"
    /\ ~stalled
    /\ \E message \in NetErrors : SendError(ErrorEvent(CaughtMessage(message)))
    /\ UNCHANGED <<apart, req, env, now, status, sse, fetched, upStatus, errText,
                   upLines, upTail, readPos, buffer, connected, stalled,
                   upBody, other, loopLines, loopPos>>

\* the error event for a rejected request
Rejection(provider, code, body) ==
    IF provider = <<"gemini">> THEN GeminiRejection(code, body)
    ELSE OpenAIRejection(code, body)

\* await upstream.text() resolves: ai.js 73-79, 126-131
TextResolves ==
    /\ pc = "text"
    /\ ~stalled
    /\ \E body \in ErrorBodies :
        /\ errText' = <<body>>
        /\ SendError(Rejection(req.provider, upStatus, body))
    /\ upBody' = "closed"
    /\ UNCHANGED <<apart, req, env, now, status, sse, fetched, upStatus, upLines,
                   upTail, readPos, buffer, connected, stalled, other,
                   loopLines, loopPos>>

\* await upstream.text() rejects: the catch of ai.js 162-165
TextRejects ==
    /\ pc = "text"
    /\ ~stalled
    /\ \E message \in NetErrors : SendError(ErrorEvent(CaughtMessage(message)))
    /\ upBody' = "errored"
    /\ UNCHANGED <<apart, req, env, now, status, sse, fetched, upStatus, errText,
                   upLines, upTail, readPos, buffer, connected, stalled,
                   other, loopLines, loopPos>>

\* await reader.read() gives a chunk of n bytes: ai.js 88-103, 139-154
ReadChunk ==
    /\ pc = "read"
    /\ ~stalled
    /\ \E n \in 1..(Len(UpBytes) - readPos) :
        LET value == SubSeq(UpBytes, readPos + 1, readPos + n)
        IN  \E lines \in {Split(buffer \o value)} :
            /\ readPos' = readPos + n
            /\ buffer' = KeepIncomplete(lines)
            /\ Write(ProcessLines(req.provider, CompleteLines(lines)))
    /\ UNCHANGED <<apart, req, env, now, pc, status, sse, ended, fetched, upStatus,
                   errText, upLines, upTail, connected, stalled, upBody,
                   other, loopLines, loopPos>>

\* the loop is left and the completion marker written before the stream ended
ReadDoneEarly ==
    /\ pc = "read"
    /\ ~stalled
    /\ Write(SendDone)
    /\ ended' = TRUE
    /\ pc' = "done"
    /\ upBody' = "closed"
    /\ UNCHANGED <<apart, req, env, now, status, sse, fetched, upStatus, errText,
                   upLines, upTail, readPos, buffer, connected, stalled,
                   other, loopLines, loopPos>>

\* await reader.read() gives done: ai.js 89 / 106, 140 / 157
ReadDone ==
    /\ pc = "read"
    /\ ~stalled
    /\ readPos = Len(UpBytes)
    /\ Write(SendDone)
    /\ ended' = TRUE
    /\ pc' = "done"
    /\ upBody' = "closed"
    /\ UNCHANGED <<apart, req, env, now, status, sse, fetched, upStatus, errText,
                   upLines, upTail, readPos, buffer, connected, stalled,
                   other, loopLines, loopPos>>

\* await reader.read() rejects: the catch of ai.js 162-165
ReadFails ==
    /\ pc = "read"
    /\ ~stalled
    /\ \E message \in ReadErrors : SendError(ErrorEvent(CaughtMessage(message)))
    /\ upBody' = "errored"
    /\ UNCHANGED <<apart, req, env, now, status, sse, fetched, upStatus, errText,
                   upLines, upTail, readPos, buffer, connected, stalled,
                   other, loopLines, loopPos>>

\* the downstream client goes away
ClientDisconnects ==
    /\ pc \in {"fetch", "text", "read"}
    /\ connected
    /\ connected' = FALSE
    /\ UNCHANGED <<apart, req, env, now, pc, status, sse, out, ended, fetched,
                   upStatus, errText, upLines, upTail, readPos, buffer,
                   received, stalled, upBody, other, loopLines, loopPos>>

\* the upstream goes silent: it settles no further promise
UpstreamStalls ==
    /\ pc \in {"fetch", "text", "read"}
    /\ ~stalled
    /\ stalled' = TRUE
    /\ UNCHANGED <<apart, req, env, now, pc, status, sse, out, ended, fetched,
                   upStatus, errText, upLines, upTail, readPos, buffer,
                   connected, received, upBody, other, loopLines, loopPos>>

Next ==
    \/ HandlerEntry
    \/ FetchResolves
    \/ FetchRejects
    \/ TextResolves
    \/ TextRejects
    \/ ReadChunk
    \/ ReadDone
    \/ ReadFails

\* the handler with a client that stays and an upstream that keeps answering
Spec == Init /\ [][Next]_vars

\* the streams of the insertion experiment: two payload lines, with or without
\* one line that carries nothing between them
InsertScripts(provider) ==
    {<<PayloadLine(provider, t1), PayloadLine(provider, t2)>> :
        t1 \in Texts, t2 \in Texts}
    \cup {<<PayloadLine(provider, t1), x, PayloadLine(provider, t2)>> :
        t1 \in Texts, x \in NoiseLines(provider), t2 \in Texts}

InsertFetchResolves == FetchResolvesFrom(InsertScripts(req.provider), {<<>>})

InsertNext ==
    \/ HandlerEntry
    \/ InsertFetchResolves
    \/ FetchRejects
    \/ TextResolves
    \/ TextRejects
    \/ ReadChunk
    \/ ReadDone
    \/ ReadFails

\* the handler against the streams of the insertion experiment
InsertSpec == Init /\ [][InsertNext]_vars

FaultFetchResolves == FetchResolvesFrom(ShortScripts(req.provider), {<<>>})

NextWithFaults ==
    \/ HandlerEntry
    \/ FaultFetchResolves
    \/ FetchRejects
    \/ TextResolves
    \/ TextRejects
    \/ ReadChunk
    \/ ReadDone
    \/ ReadFails
    \/ ClientDisconnects
    \/ UpstreamStalls

\* the handler with a client that may leave and an upstream that may go
\* silent.  The event loop runs every continuation whose promise has
\* settled, and an upstream that has not gone silent settles its promises.
FaultSpec ==
    /\ Init
    /\ [][NextWithFaults]_vars
    /\ WF_vars(HandlerEntry)
    /\ WF_vars(FaultFetchResolves \/ FetchRejects)
    /\ WF_vars(TextResolves \/ TextRejects)
    /\ WF_vars(ReadChunk \/ ReadDone \/ ReadFails)

-----------------------------------------------------------------------------
(* Two calls of the handler in flight.  Each call has its own arguments    *)
(* and its own closure (send, reader, decoder, buffer); process.env is all *)
(* they share.  The event loop runs one continuation at a time: the        *)
(* variables hold the call it is running, other the call it has suspended. *)

\* the arguments and the closure of the call that is running
Locals ==
    [req |-> req, pc |-> pc, status |-> status, sse |-> sse, out |-> out,
     ended |-> ended, fetched |-> fetched, upStatus |-> upStatus,
     errText |-> errText, upLines |-> upLines, upTail |-> upTail,
     readPos |-> readPos, buffer |-> buffer, connected |-> connected,
     received |-> received, stalled |-> stalled, upBody |-> upBody]

\* a call that has not run yet
NewCall(r) ==
    [req |-> r, pc |-> "start", status |-> 200, sse |-> FALSE, out |-> <<>>,
     ended |-> FALSE, fetched |-> <<>>, upStatus |-> 0, errText |-> <<>>,
     upLines |-> <<>>, upTail |-> <<>>, readPos |-> 0, buffer |-> <<>>,
     connected |-> TRUE, received |-> 0, stalled |-> FALSE, upBody |-> "none"]

\* one buffer at module level, used by every call
BufferOfModule(call) == buffer

\* let buffer = '': the buffer of a call is a variable of its closure
BufferOf(call) == call.buffer

\* the event loop turns from one call to the other
Switch ==
    /\ other # <<>>
    /\ other' = Locals
    /\ req' = other.req
    /\ pc' = other.pc
    /\ status' = other.status
    /\ sse' = other.sse
    /\ out' = other.out
    /\ ended' = other.ended
    /\ fetched' = other.fetched
    /\ upStatus' = other.upStatus
    /\ errText' = other.errText
    /\ upLines' = other.upLines
    /\ upTail' = other.upTail
    /\ readPos' = other.readPos
    /\ buffer' = BufferOf(other)
    /\ connected' = other.connected
    /\ received' = other.received
    /\ stalled' = other.stalled
    /\ upBody' = other.upBody
    /\ UNCHANGED <<apart, env, now, loopLines, loopPos>>

PairMessages == {<<"h", "i">>, <<"y", "o">>}

\* two admitted requests, to either provider
PairRequests ==
    [method : {"POST"},
     token : {signToken([sub |-> <<"admin">>, exp |-> Now0 + 1], Secret)},
     provider : {<<"gemini">>, <<"openai">>},
     systemPrompt : SystemPrompts, history : Histories,
     userMessage : PairMessages]

PairInit ==
    /\ req \in PairRequests
    /\ env = EnvOf(Secret, <<"gk">>, <<"ok">>)
    /\ now = Now0
    /\ pc = "start"
    /\ status = 200
    /\ sse = FALSE
    /\ out = <<>>
    /\ ended = FALSE
    /\ fetched = <<>>
    /\ upStatus = 0
    /\ errText = <<>>
    /\ upLines = <<>>
    /\ upTail = <<>>
    /\ readPos = 0
    /\ buffer = <<>>
    /\ connected = TRUE
    /\ received = 0
    /\ stalled = FALSE
    /\ upBody = "none"
    /\ other \in {NewCall(r) : r \in PairRequests}
    /\ loopLines = <<>>
    /\ loopPos = 0
    /\ ApartAtRest

\* both upstream requests are rejected
RejectFetchResolves ==
    FetchResolvesWith({code \in UpStatuses : ~Ok(code)}, {<<>>}, {<<>>})

RejectNext ==
    \/ HandlerEntry
    \/ RejectFetchResolves
    \/ FetchRejects
    \/ TextResolves
    \/ TextRejects
    \/ Switch

\* two calls whose upstream requests are rejected
RejectSpec == PairInit /\ [][RejectNext]_vars

\* both upstream requests are accepted
PairFetchResolves ==
    FetchResolvesWith({code \in UpStatuses : Ok(code)},
                      ShortScripts(req.provider), {<<>>})

PairNext ==
    \/ HandlerEntry
    \/ PairFetchResolves
    \/ FetchRejects
    \/ ReadChunk
    \/ ReadDone
    \/ ReadFails
    \/ Switch

\* two calls that stream, their reads interleaved in any way
PairSpec == PairInit /\ [][PairNext]_vars

-----------------------------------------------------------------------------
(* The read loop, one pass of the for loop at a time.                      *)

\* await reader.read() gives a chunk of n bytes: ai.js 88-92, 139-143, up to
\* the for loop
ReadChunkSplit ==
    /\ pc = "read"
    /\ ~stalled
    /\ \E n \in 1..(Len(UpBytes) - readPos) :
        LET value == SubSeq(UpBytes, readPos + 1, readPos + n)
        IN  \E lines \in {Split(buffer \o value)} :
            /\ readPos' = readPos + n
            /\ buffer' = KeepIncomplete(lines)
            /\ loopLines' = CompleteLines(lines)
            /\ loopPos' = 0
            /\ pc' = IF CompleteLines(lines) = <<>> THEN "read" ELSE "loop"
    /\ UNCHANGED <<apart, req, env, now, status, sse, out, ended, fetched, upStatus,
                   errText, upLines, upTail, connected, received, stalled,
                   upBody, other>>

\* the fragments of a chunk are written together, at its last line
WritesAtLastLine(provider, lines, i) ==
    IF i = Len(lines) THEN ProcessLines(provider, lines) ELSE <<>>

\* what the pass over lines[i] writes: ai.js 95-102, 146-153
WritesOfLine(provider, lines, i) == ProcessLine(provider, lines[i])

\* one pass of for (const line of lines), and the next await when it was
\* the last
LoopLine ==
    /\ pc = "loop"
    /\ Write(WritesOfLine(req.provider, loopLines, loopPos + 1))
    /\ loopPos' = loopPos + 1
    /\ pc' = IF loopPos + 1 = Len(loopLines) THEN "read" ELSE "loop"
    /\ UNCHANGED <<apart, req, env, now, status, sse, ended, fetched, upStatus,
                   errText, upLines, upTail, readPos, buffer, connected,
                   stalled, upBody, other, loopLines>>

\* a payload line, the other payload line, a blank line
LineLoopKinds(provider) ==
    {PayloadLine(provider, <<"a", "b">>), PayloadLine(provider, <<"c">>), <<>>}

LineScripts(provider) ==
    UNION {[1..n -> LineLoopKinds(provider)] : n \in 1..MaxLoopLines}

LineFetchResolves == FetchResolvesFrom(LineScripts(req.provider), {<<>>})

LineNext ==
    \/ HandlerEntry
    \/ LineFetchResolves
    \/ FetchRejects
    \/ TextResolves
    \/ TextRejects
    \/ ReadChunkSplit
    \/ LoopLine
    \/ ReadDone
    \/ ReadFails

\* the handler, its for loop taken one line at a time
LineSpec == Init /\ [][LineNext]_vars

-----------------------------------------------------------------------------
(* Streams with lines that are not event lines.                            *)

\* the lines of an event stream that do not begin with 'data: ': a blank
\* separator, an event name, a keep-alive comment, a payload after 'data:'
\* with no space, a payload line behind a space
OtherLines(provider) ==
    { <<>>,
      <<"e", "v", "e", "n", "t", ":", " ", "m">>,
      <<":", " ", "p">>,
      <<"d", "a", "t", "a", ":", Open(provider), "c", Close(provider)>>,
      <<" ">> \o PayloadLine(provider, <<"c">>) }

\* such a line before, after and between payload lines, and two in a row
FilterScripts(provider) ==
    UNION { { <<x, PayloadLine(provider, <<"a", "b">>)>>,
              <<PayloadLine(provider, <<"a", "b">>), x>>,
              <<PayloadLine(provider, <<"a", "b">>), x,
                PayloadLine(provider, <<"c">>)>>,
              <<x, <<>>, PayloadLine(provider, <<"c">>)>> } :
            x \in OtherLines(provider) }

-----------------------------------------------------------------------------
(* Streams of payloads with and without text.                              *)

\* the payloads without text at the path of the adapter
Metadata(provider) ==
    {<<"{}">>, <<Open(provider), Close(provider)>>,
     <<Open(Foreign(provider)), "c", Close(Foreign(provider))>>}
        \cup { <<m>> : m \in
                  { k \in DOMAIN MetadataValues :
                      ("candidates" \in DOMAIN MetadataValues[k].f)
                          = (provider = <<"gemini">>) } }

\* streams of lines whose payloads all parse: with text, and without
PayloadScripts(provider) ==
    UNION {[1..n -> { DataPrefix \o p : p \in Metadata(provider) }
                        \cup { PayloadLine(provider, t) : t \in Texts }] :
           n \in 1..MaxLines}

-----------------------------------------------------------------------------
(* Requests with a system prompt and prior turns.                          *)

MaxHistory == 2

\* prior turns with the roles of a conversation and with another role
BuildHistories ==
    UNION {[1..n -> {Turn(role, text) : role \in {"user", "assistant", "system"},
                                        text \in {<<"p">>, <<"q">>}}] :
           n \in 0..MaxHistory}

\* admitted requests to either adapter, with and without a system prompt
BuildRequests ==
    [method : {"POST"},
     token : {signToken([sub |-> <<"admin">>, exp |-> Now0 + 1], Secret)},
     provider : {<<"gemini">>, <<"openai">>},
     systemPrompt : {<<>>, <<"s", "y", "s">>},
     history : BuildHistories,
     userMessage : {<<"h", "i">>}]

BuildInit ==
    /\ req \in BuildRequests
    /\ env \in {e \in Envs : e.AGENT_API_KEY = Secret}
    /\ now = Now0
    /\ pc = "start"
    /\ status = 200
    /\ sse = FALSE
    /\ out = <<>>
    /\ ended = FALSE
    /\ fetched = <<>>
    /\ upStatus = 0
    /\ errText = <<>>
    /\ upLines = <<>>
    /\ upTail = <<>>
    /\ readPos = 0
    /\ buffer = <<>>
    /\ connected = TRUE
    /\ received = 0
    /\ stalled = FALSE
    /\ upBody = "none"
    /\ other = <<>>
    /\ loopLines = <<>>
    /\ loopPos = 0
    /\ ApartAtRest

BuildNext ==
    \/ HandlerEntry
    \/ FaultFetchResolves
    \/ FetchRejects
    \/ TextResolves
    \/ TextRejects
    \/ ReadChunk
    \/ ReadDone
    \/ ReadFails

\* the handler on requests with a system prompt and prior turns
BuildSpec == BuildInit /\ [][BuildNext]_vars

-----------------------------------------------------------------------------
(* Streams of these shapes, and streams without a line separator.          *)

MaxFlood == 12

\* the upstream sends lines that are not event lines or payloads with and
\* without text; or it sends bytes with no line separator among them
ShapeFetchResolves ==
    \/ FetchResolvesFrom(FilterScripts(req.provider)
                             \cup PayloadScripts(req.provider), {<<>>})
    \/ FetchResolvesWith({200}, {<<>>, <<PayloadLine(req.provider, <<"c">>)>>},
                         {[i \in 1..n |-> "x"] : n \in 1..MaxFlood})

ShapeNext ==
    \/ HandlerEntry
    \/ ShapeFetchResolves
    \/ FetchRejects
    \/ TextResolves
    \/ TextRejects
    \/ ReadChunk
    \/ ReadDone
    \/ ReadFails

\* the handler against streams of these shapes
ShapeSpec == Init /\ [][ShapeNext]_vars

-----------------------------------------------------------------------------
(* Session tokens: issuance, presentation and verification.                *)

\* 24 * 60 * 60 * 1000: the lifetime of a session, in milliseconds
Day == 24 * 60 * 60 * 1000

\* payloads that expire at the first instant and a day later
Payloads == [sub : {<<"admin">>}, iat : {Now0}, exp : {Now0, Now0 + Day}]

\* no call of the relay is in flight and none has been made
RelayAtRest ==
    /\ req = [method |-> "POST", token |-> <<>>, provider |-> <<>>,
              systemPrompt |-> <<>>, history |-> <<>>, userMessage |-> <<>>]
    /\ env = EnvOf(Secret, <<"gk">>, <<"ok">>)
    /\ pc = "start"
    /\ status = 200
    /\ sse = FALSE
    /\ out = <<>>
    /\ ended = FALSE
    /\ fetched = <<>>
    /\ upStatus = 0
    /\ errText = <<>>
    /\ upLines = <<>>
    /\ upTail = <<>>
    /\ readPos = 0
    /\ buffer = <<>>
    /\ connected = TRUE
    /\ received = 0
    /\ stalled = FALSE
    /\ upBody = "none"
    /\ other = <<>>
    /\ loopLines = <<>>
    /\ loopPos = 0

TokenInit == RelayAtRest /\ now = Now0 /\ ApartAtRest

\* signToken(payload, secret) applied to a payload and a secret
SignToken ==
    /\ signed = <<>>
    /\ \E payload \in Payloads, secret \in {Secret, OtherSecret} :
        /\ signed' = <<[payload |-> payload, secret |-> secret]>>
        /\ presented' = signToken(payload, secret)
    /\ UNCHANGED <<pushVars, relayVars, now, verified, learnVars>>

\* POST /api/auth with the right credentials: a token of 24 hours
Login ==
    /\ signed = <<>>
    /\ env.AGENT_API_KEY # <<>>
    /\ LET payload == [sub |-> <<"admin">>, iat |-> now, exp |-> now + Day]
       IN  /\ signed' = <<[payload |-> payload, secret |-> env.AGENT_API_KEY]>>
           /\ presented' = signToken(payload, env.AGENT_API_KEY)
    /\ UNCHANGED <<pushVars, relayVars, now, verified, learnVars>>

\* what a token can be made into without the secret it was signed with:
\* another payload under the old signature, the payload part written in
\* another way, a signature cut short or made with another secret, a
\* token made anew with another secret, a part less, a part more, nothing
Altered(payload, secret) ==
    LET issued == signToken(payload, secret)
        later == [payload EXCEPT !.exp = @ + Day]
        forger == <<"k3">>
    IN  { <<Base64Url(later), issued[2]>>,
          <<Base64Padded(payload), issued[2]>>,
          <<issued[1], [issued[2] EXCEPT !.enc = "hex, cut short"]>>,
          <<issued[1], HmacHex(forger, payload)>>,
          signToken(later, forger),
          <<issued[1]>>,
          issued \o <<issued[2]>>,
          <<>> }

\* the client changes the token it holds
Alter ==
    /\ signed # <<>>
    /\ presented = signToken(signed[1].payload, signed[1].secret)
    /\ presented' \in Altered(signed[1].payload, signed[1].secret)
    /\ UNCHANGED <<pushVars, relayVars, now, signed, verified, learnVars>>

\* verifyToken(token, apiKey) as authenticate calls it
Verify ==
    /\ env.AGENT_API_KEY # <<>>
    /\ verified' = <<[token |-> presented, at |-> now,
                      result |-> verifyToken(presented, env.AGENT_API_KEY, now)]>>
    /\ UNCHANGED <<pushVars, relayVars, now, signed, presented, learnVars>>

\* time passes: to the next millisecond, to a day after the first instant,
\* to a millisecond after that
Tick ==
    /\ \E t \in {Now0 + 1, Now0 + Day, Now0 + Day + 1} : t > now /\ now' = t
    /\ UNCHANGED <<relayVars, apart>>

TokenNext ==
    \/ SignToken
    \/ Login
    \/ Alter
    \/ Verify
    \/ Tick

\* tokens signed, altered and verified as time passes
TokenSpec == TokenInit /\ [][TokenNext]_vars

-----------------------------------------------------------------------------
(* The learning engine: log, analyse and the weekly digest.  The requests  *)
(* are those of one authenticated user, served one after another.          *)

MaxInteractions == 2

MaxGenerated == 3

\* a profile as analyseInteractions builds it: no digest among its fields
FreshProfile(total) ==
    JObj([totalInteractions |-> total, lastDigest |-> <<>>, lastDigestAt |-> 0])

\* updated.lastDigest = digest; updated.lastDigestAt = Date.now()
WithDigest(p, digest, at) ==
    JObj([totalInteractions |-> IF p = JNull THEN 0 ELSE p.f.totalInteractions,
          lastDigest |-> digest, lastDigestAt |-> at])

\* the digest of the profile is used: cachedDigest && digestAge < 24 h
DigestIsFresh(p, time) ==
    /\ p # JNull
    /\ p.f.lastDigest # <<>>
    /\ p.f.lastDigestAt # 0
    /\ time - p.f.lastDigestAt < Day

\* POST { action: 'log', userMsg }: one more interaction
Log ==
    /\ interactions < MaxInteractions
    /\ interactions' = interactions + 1
    /\ answer' = [action |-> "log"]
    /\ UNCHANGED <<pushVars, relayVars, now, tokenVars, profile, generated, cached>>

\* POST { action: 'analyse' }: the profile is built anew from the rows and
\* written over the stored one
Analyse ==
    /\ profile' = IF interactions = 0 THEN profile
                  ELSE FreshProfile(interactions)
    /\ answer' = [action |-> "analyse", at |-> now]
    /\ UNCHANGED <<pushVars, relayVars, now, tokenVars, interactions, generated, cached>>

\* POST { action: 'digest' }: a digest is generated and, if there is one,
\* written into the profile
PostDigest ==
    /\ generated < MaxGenerated
    /\ generated' = generated + 1
    /\ \E made \in BOOLEAN :
        LET digest == IF made THEN <<"digest ", ToString(generated + 1)>>
                           ELSE <<>>
        IN  /\ profile' = IF made THEN WithDigest(profile, digest, now)
                          ELSE profile
            /\ cached' = IF made THEN <<[digest |-> digest, at |-> now]>>
                         ELSE cached
            /\ answer' = [action |-> "POST digest", at |-> now, digest |-> digest]
    /\ UNCHANGED <<pushVars, relayVars, now, tokenVars, interactions>>

\* GET ?action=digest: the digest of the profile if it is younger than 24
\* hours, else a generated one, written into the profile if there is one
GetDigest ==
    IF DigestIsFresh(profile, now)
    THEN /\ answer' = [action |-> "GET digest", at |-> now,
                       digest |-> profile.f.lastDigest]
         /\ UNCHANGED <<pushVars, relayVars, now, tokenVars, profile, interactions,
                        generated, cached>>
    ELSE /\ generated < MaxGenerated
         /\ generated' = generated + 1
         /\ \E made \in BOOLEAN :
             LET digest == IF made THEN <<"digest ", ToString(generated + 1)>>
                           ELSE <<>>
                 keeps == made /\ profile # JNull
             IN  /\ profile' = IF keeps THEN WithDigest(profile, digest, now)
                               ELSE profile
                 /\ cached' = IF keeps THEN <<[digest |-> digest, at |-> now]>>
                              ELSE cached
                 /\ answer' = [action |-> "GET digest", at |-> now,
                               digest |-> digest]
         /\ UNCHANGED <<pushVars, relayVars, now, tokenVars, interactions>>

LearnNext ==
    \/ Log
    \/ Analyse
    \/ PostDigest
    \/ GetDigest
    \/ Tick

\* the requests of one user to /api/learn as time passes
LearnSpec == TokenInit /\ [][LearnNext]_vars

-----------------------------------------------------------------------------
(* pushFile: the SHA lookup and the write to the repository.               *)

\* the status of the answer to GET /repos/<repo>/contents/<path>
LookupStatuses == {200, 401, 403, 404, 500}

\* its body: a file object with its sha, JSON without a sha, not JSON
LookupBodies == {"sha", "no sha", "not JSON"}

PutStatuses == {200, 201, 409, 422}

FoundSha == <<"abc">>

\* { message, content, branch } and sha, if there is one
PutBody(found) == [content |-> <<"new">>, sha |-> found]

\* the response: the status, and the handler is done
Respond(code) == pushRes' = code /\ pushPc' = "done"

\* pushFile up to the lookup: the fields are checked, the lookup is sent
PushEntry ==
    /\ pushPc = "start"
    /\ \E complete \in BOOLEAN :
        IF complete THEN pushPc' = "lookup" /\ UNCHANGED pushRes
        ELSE Respond(400)
    /\ UNCHANGED <<relayVars, now, tokenVars, learnVars, served, shaStatus,
                   shaData, sha, puts>>

\* github.js 53-78: the answer to the lookup arrives; the write is sent
\* after a success or a 404, any other status is returned
LookupGuarded(code, body) ==
    IF code \in 200..299
    THEN IF body = "not JSON"
         THEN Respond(500) /\ UNCHANGED <<sha, puts>>
         ELSE \E found \in {IF body = "sha" THEN FoundSha ELSE <<>>} :
                /\ sha' = found
                /\ puts' = Append(puts, PutBody(found))
                /\ pushPc' = "put"
                /\ UNCHANGED pushRes
    ELSE IF code # 404
    THEN Respond(code) /\ UNCHANGED <<sha, puts>>
    ELSE /\ puts' = Append(puts, PutBody(sha))
         /\ pushPc' = "put"
         /\ UNCHANGED <<sha, pushRes>>

\* api/github.js 96-108: the answer to the lookup arrives; the sha is
\* taken from an answer with status 200 and the write is sent
LookupUnguarded(code, body) ==
    \E found \in {IF code = 200 /\ body = "sha" THEN FoundSha ELSE <<>>} :
        /\ sha' = found
        /\ puts' = Append(puts, PutBody(found))
        /\ pushPc' = "put"
        /\ UNCHANGED pushRes

LookupResolves ==
    /\ pushPc = "lookup"
    /\ \E code \in LookupStatuses, body \in LookupBodies :
        /\ shaStatus' = code
        /\ shaData' = body
        /\ IF served = "src/github.js" THEN LookupGuarded(code, body)
           ELSE LookupUnguarded(code, body)
    /\ UNCHANGED <<relayVars, now, tokenVars, learnVars, served>>

\* a fetch of the handler rejects: the catch answers 500
PushFetchRejects ==
    /\ pushPc \in {"lookup", "put"}
    /\ Respond(500)
    /\ UNCHANGED <<relayVars, now, tokenVars, learnVars, served, shaStatus,
                   shaData, sha, puts>>

\* the answer to the write arrives
PutResolves ==
    /\ pushPc = "put"
    /\ \E code \in PutStatuses :
        Respond(IF code \in {200, 201} THEN 200 ELSE code)
    /\ UNCHANGED <<relayVars, now, tokenVars, learnVars, served, shaStatus,
                   shaData, sha, puts>>

PushInit ==
    /\ RelayAtRest
    /\ now = Now0
    /\ OthersAtRest
    /\ served \in {"src/api/github.js", "src/github.js"}
    /\ PushIdle

PushNext ==
    \/ PushEntry
    \/ LookupResolves
    \/ PushFetchRejects
    \/ PutResolves

\* one call of pushFile in either handler
PushSpec == PushInit /\ [][PushNext]_vars

-----------------------------------------------------------------------------
(* What the claims speak of.                                               *)

IsFragment(e) == e.kind = "fragment"

IsTerminal(e) == e.kind \in {"done", "error"}

Fragments(events) == SelectSeq(events, IsFragment)

Terminals == {i \in DOMAIN out : IsTerminal(out[i])}

\* the fragment events of a sequence of texts
RECURSIVE AsFragments(_)
AsFragments(texts) ==
    IF texts = <<>> THEN <<>>
    ELSE <<FragmentEvent(texts[1])>> \o AsFragments(Tail(texts))

\* the text a line carries for the adapter by its construction: it is the
\* adapter's payload line for that text, with or without a CR before the
\* line separator
CarriedText(provider, line) ==
    LET carries(t) == line \in {PayloadLine(provider, t),
                                PayloadLine(provider, t) \o <<"\r">>}
    IN  IF \E t \in Texts : carries(t)
        THEN <<CHOOSE t \in Texts : carries(t)>>
        ELSE <<>>

\* t1 .. tN: the texts of the well-formed payload lines, in order
RECURSIVE ExpectedTexts(_, _)
ExpectedTexts(provider, lines) ==
    IF lines = <<>> THEN <<>>
    ELSE CarriedText(provider, lines[1]) \o ExpectedTexts(provider, Tail(lines))

\* the lines whose line separator lies within the first n bytes
LinesWithin(lines, n) ==
    SubSeq(lines, 1,
           Max({k \in 0..Len(lines) : Len(Flatten(SubSeq(lines, 1, k))) <= n}))

\* the session read the stream to its end and wrote the completion marker
Completed == pc = "done" /\ out # <<>> /\ Last(out) = DoneEvent

\* the session was streaming and ended on a failed read
FailedMidStream == pc = "done" /\ Ok(upStatus) /\ out # <<>> /\ Last(out).kind = "error"

Streaming == pc = "read"

-----------------------------------------------------------------------------
(* C1: a session that set out to stream has, once the handler has          *)
(* returned, written exactly one terminal event (the done marker or one    *)
(* error event); at no time has it written more than one, and nothing is   *)
(* written after it.                                                       *)
C1_TerminalExactlyOnce ==
    /\ Cardinality(Terminals) <= 1
    /\ \A i \in Terminals : i = Len(out)
    /\ (pc = "done" /\ sse) => Cardinality(Terminals) = 1
    /\ (Terminals # {}) => (pc = "done" /\ ended)

\* a read failed after fragments had been forwarded
C1_Witness ==
    /\ FailedMidStream
    /\ Len(out) >= 2
    /\ Cardinality(Terminals) = 1

(* C2: what the client has been sent depends on how many bytes have been   *)
(* read and not on how they were split into chunks: while streaming, and   *)
(* at completion, the events written are exactly the fragments t1 .. tN of *)
(* the well-formed payload lines read so far, in order, for each adapter.  *)
C2_ChunkingInvariance ==
    /\ Streaming =>
         out = AsFragments(ExpectedTexts(req.provider, LinesWithin(upLines, readPos)))
    /\ Completed =>
         Front(out) = AsFragments(ExpectedTexts(req.provider, upLines))

\* two payload lines with different texts, the second one cut by a chunk
\* boundary after the first has been forwarded
C2_Witness ==
    /\ Streaming
    /\ Len(upLines) = 2
    /\ ExpectedTexts(req.provider, upLines) = <<<<"a", "b">>, <<"c">>>>
    /\ out = <<FragmentEvent(<<"a", "b">>)>>
    /\ buffer # <<>>
    /\ Len(buffer) < Len(upLines[2])

(* C3: a session that was streaming ends in one of two shapes: all         *)
(* fragments in order and then the completion marker, after end-of-stream; *)
(* or the fragments forwarded before a failed read and then one error      *)
(* event.  It never ends without a terminal event.                         *)
C3_TwoShapes ==
    (pc = "done" /\ Ok(upStatus)) =>
        \/ /\ readPos = Len(UpBytes)
           /\ out = AsFragments(ExpectedTexts(req.provider, upLines)) \o <<DoneEvent>>
        \/ /\ FailedMidStream
           /\ Front(out) =
                AsFragments(ExpectedTexts(req.provider, LinesWithin(upLines, readPos)))

\* partial output, then one error event
C3_Witness ==
    /\ FailedMidStream
    /\ readPos < Len(UpBytes)
    /\ Front(out) = <<FragmentEvent(<<"c">>)>>

(* C4: with a line that carries nothing (wrong prefix, a payload that does *)
(* not parse, ...) between two payload lines, both fragments are written,  *)
(* in order, nothing else is written while streaming, and the session ends *)
(* with the completion marker unless a read fails.                         *)
C4_MalformedLineTolerance ==
    LET first == CarriedText(req.provider, upLines[1])
        last == CarriedText(req.provider, upLines[Len(upLines)])
    IN  /\ Streaming => \A i \in DOMAIN out : IsFragment(out[i])
        /\ (Streaming /\ readPos = Len(UpBytes)) => out = AsFragments(first \o last)
        /\ (pc = "done" /\ Ok(upStatus)) =>
              \/ out = AsFragments(first \o last) \o <<DoneEvent>>
              \/ /\ FailedMidStream
                 /\ Last(out) \in {ErrorEvent(CaughtMessage(m)) : m \in ReadErrors}

\* a payload that does not parse between two payload lines, and the session
\* completed
C4_Witness ==
    /\ Completed
    /\ Len(upLines) = 3
    /\ upLines[2] = DataPrefix \o <<Open(req.provider), "c">>
    /\ out = <<FragmentEvent(<<"a", "b">>), FragmentEvent(<<"c">>), DoneEvent>>

(* C5: a stream of one payload line and its line separator gives, however  *)
(* the line is split across chunks, nothing until the separator has been   *)
(* read, then the one fragment, and at end-of-stream the completion        *)
(* marker: the same as the line delivered in one chunk.                    *)
C5_PartialLineSafety ==
    \A t \in Texts :
        (upLines = <<PayloadLine(req.provider, t)>> /\ upTail = <<>>) =>
            /\ (Streaming /\ readPos < Len(UpBytes)) =>
                  (out = <<>> /\ buffer = SubSeq(UpBytes, 1, readPos))
            /\ (Streaming /\ readPos = Len(UpBytes)) =>
                  (out = <<FragmentEvent(t)>> /\ buffer = <<>>)
            /\ Completed => out = <<FragmentEvent(t), DoneEvent>>

\* the first chunk ended inside the text of the payload
C5_Witness ==
    /\ Streaming
    /\ upLines = <<PayloadLine(req.provider, <<"a", "b">>)>>
    /\ upTail = <<>>
    /\ buffer = DataPrefix \o <<Open(req.provider), "a">>

-----------------------------------------------------------------------------
\* the request passed the method check and authenticate
Admitted == req.method = "POST" /\ Authenticate.ok

\* the body of a rejected response has been read
Rejected == pc = "done" /\ ~Ok(upStatus) /\ errText # <<>>

\* the error event carries the quota marker
ReportsQuota(e) == e.kind = "error" /\ StartsWith(e.text, <<"QUOTA:">>)

\* the body contains the quota-exhaustion marker, in any case
HasQuotaMarker(body) == Includes(ToLowerCase(body), Quota)

C7_Cancellation ==
    [][(~connected /\ Len(out) > received) =>
            (out' = out /\ readPos' = readPos)]_vars

(* C8: a request with no userMessage, no provider or a provider other than *)
(* 'gemini' and 'openai' never leads to an upstream fetch; when it passed  *)
(* the method check and authenticate, the handler returns having written   *)
(* one client-input error: a 400 response, or for the unknown provider the *)
(* one error event.                                                        *)
C8_InvalidRequest ==
    LET noMessage == req.userMessage = <<>>
        noProvider == req.provider = <<>>
        unknown == req.provider \notin {<<"gemini">>, <<"openai">>}
    IN  (noMessage \/ unknown) =>
            /\ fetched = <<>>
            /\ pc \in {"start", "done"}
            /\ (Admitted /\ pc = "done") =>
                 /\ ended
                 /\ out = IF noMessage
                          THEN <<JsonBody(<<"userMessage is required">>)>>
                          ELSE IF noProvider
                          THEN <<JsonBody(<<"provider is required">>)>>
                          ELSE <<ErrorEvent(
                                <<"Invalid provider. Use 'gemini' or 'openai'.">>)>>
                 /\ status = IF noMessage \/ noProvider THEN 400 ELSE 200

\* the unknown provider, refused
C8_Witness ==
    /\ Admitted
    /\ req.provider = <<"claude">>
    /\ req.userMessage # <<>>
    /\ pc = "done"
    /\ out # <<>>
    /\ out[1].kind = "error"
    /\ fetched = <<>>

(* C9: a request whose provider's credential is absent never leads to an   *)
(* upstream fetch; when it is valid and passed the method check and        *)
(* authenticate, the handler returns having written the configuration      *)
(* error as its one event, and no fragment.                                *)
C9_MissingCredential ==
    LET gemini == req.provider = <<"gemini">> /\ env.GEMINI_API_KEY = <<>>
        openai == req.provider = <<"openai">> /\ env.OPENAI_API_KEY = <<>>
    IN  (gemini \/ openai) =>
            /\ fetched = <<>>
            /\ pc \in {"start", "done"}
            /\ (Admitted /\ req.userMessage # <<>> /\ pc = "done") =>
                 /\ ended
                 /\ out = <<ErrorEvent(IF gemini
                                       THEN <<"GEMINI_API_KEY not configured.">>
                                       ELSE <<"OPENAI_API_KEY not configured.">>)>>

\* Gemini asked for, the other provider's key present, Gemini's absent
C9_Witness ==
    /\ Admitted
    /\ req.provider = <<"gemini">>
    /\ env.GEMINI_API_KEY = <<>>
    /\ env.OPENAI_API_KEY # <<>>
    /\ pc = "done"
    /\ out = <<ErrorEvent(<<"GEMINI_API_KEY not configured.">>)>>

(* C10: every session eventually reaches its terminal state, also when the *)
(* upstream has gone silent.                                               *)
C10_BoundedLifetime == <>(pc = "done")

-----------------------------------------------------------------------------
(* C11: once the handler has returned, by whatever path (a refused         *)
(* request, a rejected upstream request, end-of-stream, an exception       *)
(* thrown by an await inside the read loop), the response has been ended   *)
(* and no upstream body is left open: it was never obtained, was read to   *)
(* its end, or has failed.  Nothing is ended or closed before that.        *)
C11_ResourceRelease ==
    /\ pc = "done" => (ended /\ upBody # "open")
    /\ ended => pc = "done"

\* the read loop was left by an exception after a fragment was forwarded
C11_Witness ==
    /\ FailedMidStream
    /\ Len(out) >= 2
    /\ ended
    /\ upBody = "errored"

-----------------------------------------------------------------------------
\* the call was rejected by the upstream and the body of the answer was read
RejectedCall(call) ==
    call.pc = "done" /\ call.upStatus # 0 /\ ~Ok(call.upStatus)
        /\ call.errText # <<>>

\* the adapter, the status and the body the classifier was given
Classified(call) == <<call.req.provider, call.upStatus, call.errText>>

(* C12: two calls that were rejected with the same adapter, the same       *)
(* status and the same body have written the same single error event,      *)
(* whatever their requests said and whichever ran first.                   *)
C12_ClassificationPure ==
    (/\ other # <<>>
     /\ RejectedCall(Locals)
     /\ RejectedCall(other)
     /\ Classified(Locals) = Classified(other))
        => (Len(out) = 1 /\ out[1].kind = "error" /\ out = other.out)

\* two requests with different messages, both answered 403 with a body that
\* gives no message
C12_Witness ==
    /\ other # <<>>
    /\ RejectedCall(Locals)
    /\ RejectedCall(other)
    /\ Classified(Locals) = <<<<"gemini">>, 403, <<<<"<html>">>>>>>
    /\ Classified(other) = Classified(Locals)
    /\ req.userMessage # other.req.userMessage
    /\ out = other.out

(* C13: an upstream answer with status 401 or 403 is reported as an        *)
(* authentication failure whatever its body contains: in particular it is  *)
(* never reported as quota exhaustion, for either adapter.                 *)
C13_AuthFailure ==
    (Rejected /\ upStatus \in {401, 403}) =>
        (Len(out) = 1 /\ out[1].kind = "error" /\ ~ReportsQuota(out[1]))

-----------------------------------------------------------------------------
\* what a call has written and what its buffer holds come from the stream
\* of its own upstream response: the fragments of the lines read so far,
\* and the bytes read since the last line separator
OwnStream(call) ==
    LET bytes == Flatten(call.upLines) \o call.upTail
        whole == LinesWithin(call.upLines, call.readPos)
        expected == AsFragments(ExpectedTexts(call.req.provider, whole))
    IN  /\ call.pc = "read" =>
              /\ call.out = expected
              /\ call.buffer = SubSeq(bytes, Len(Flatten(whole)) + 1, call.readPos)
        /\ (call.pc = "done" /\ Ok(call.upStatus)) =>
              /\ call.out # <<>>
              /\ Front(call.out) = expected
              /\ IsTerminal(Last(call.out))

(* C14: with two calls of the handler in flight and their reads            *)
(* interleaved in any way, the line buffer of each call holds bytes of its *)
(* own upstream stream only, and every fragment and terminal event of a    *)
(* call was decoded from its own stream.                                   *)
C14_SessionIsolation ==
    other # <<>> => (OwnStream(Locals) /\ OwnStream(other))

\* both calls are inside a line of their streams, which differ, and one of
\* them has forwarded a fragment
C14_Witness ==
    /\ other # <<>>
    /\ pc = "read"
    /\ other.pc = "read"
    /\ Len(upLines) # Len(other.upLines)
    /\ buffer # <<>>
    /\ other.buffer # <<>>
    /\ buffer # other.buffer
    /\ out = <<FragmentEvent(<<"a", "b">>)>>
    /\ other.out = <<>>

-----------------------------------------------------------------------------
\* AGENT_API_KEY is set, and the token is a payload signed with it whose
\* expiry has not passed
GoodToken ==
    /\ env.AGENT_API_KEY # <<>>
    /\ \E exp \in {Now0 - 1, Now0 + 1} :
          /\ req.token = signToken([sub |-> <<"admin">>, exp |-> exp],
                                   env.AGENT_API_KEY)
          /\ now <= exp

IsStreamEvent(e) == e.kind \in {"fragment", "error", "done"}

(* C15: unless AGENT_API_KEY is set and the token of the request is signed *)
(* with it and not expired, the handler issues no upstream request, sets   *)
(* no streaming header and writes no streaming event; a POST request with  *)
(* an absent, malformed, wrongly signed or expired token is answered by    *)
(* the one JSON response 401 (500 when AGENT_API_KEY is unset), and the    *)
(* handler returns there.                                                  *)
C15_AuthGate ==
    ~GoodToken =>
        /\ fetched = <<>>
        /\ ~sse
        /\ \A i \in DOMAIN out : ~IsStreamEvent(out[i])
        /\ pc \in {"start", "done"}
        /\ (req.method = "POST" /\ pc = "done") =>
              /\ ended
              /\ status = IF env.AGENT_API_KEY = <<>> THEN 500 ELSE 401
              /\ out = <<JsonBody(IF env.AGENT_API_KEY = <<>>
                                  THEN <<"AGENT_API_KEY not set.">>
                                  ELSE Unauthorized)>>

\* an otherwise valid request whose token was signed with another secret
C15_Witness ==
    /\ req.method = "POST"
    /\ req.token = signToken([sub |-> <<"admin">>, exp |-> Now0 + 1], OtherSecret)
    /\ req.provider = <<"gemini">>
    /\ req.userMessage # <<>>
    /\ env.GEMINI_API_KEY # <<>>
    /\ pc = "done"
    /\ status = 401
    /\ fetched = <<>>

-----------------------------------------------------------------------------
\* the upstream has answered, with a status outside 200..299
NonSuccess == upStatus # 0 /\ (upStatus < 200 \/ upStatus > 299)

(* C16: when the upstream answers the opening request with a non-success   *)
(* status, the handler never enters the read loop: it reads no chunk of    *)
(* the stream, writes nothing while the body of the answer is awaited, no  *)
(* fragment at any time, and returns having written one error event, the   *)
(* only event of the session.                                              *)
C16_ClassificationPrecedesStreaming ==
    NonSuccess =>
        /\ pc \in {"text", "done"}
        /\ readPos = 0
        /\ buffer = <<>>
        /\ pc = "text" => out = <<>>
        /\ pc = "done" => (Len(out) = 1 /\ out[1].kind = "error" /\ ended)

\* a 500 whose body carries a message, reported as that message alone
C16_Witness ==
    /\ NonSuccess
    /\ upStatus = 500
    /\ errText = <<<<EOpen, "b", "a", "d", EClose>>>>
    /\ pc = "done"
    /\ out = <<ErrorEvent(<<"b", "a", "d">>)>>

-----------------------------------------------------------------------------
\* the lines the for loops have gone through so far: those whose line
\* separator has been read, less those the running loop has still to take
ExaminedLines ==
    LET whole == LinesWithin(upLines, readPos)
    IN  SubSeq(whole, 1, Len(whole) - (Len(loopLines) - loopPos))

(* C17: inside the read loop, after every pass of the for loop and at      *)
(* every read of the upstream, the events written are exactly the          *)
(* fragments of the lines the loop has gone through: the fragment of a     *)
(* line is written before the next line is examined and before the next    *)
(* chunk is read, and none is held back.                                   *)
C17_ImmediateForwarding ==
    /\ pc \in {"read", "loop"} =>
          out = AsFragments(ExpectedTexts(req.provider, ExaminedLines))
    /\ pc = "loop" => loopPos < Len(loopLines)
    /\ pc = "read" => loopPos = Len(loopLines)

\* one chunk brought two payload lines; the fragment of the first has been
\* written, the second line has not been examined yet
C17_Witness ==
    /\ pc = "loop"
    /\ Len(loopLines) >= 2
    /\ loopPos = 1
    /\ CarriedText(req.provider, loopLines[1]) = <<<<"a", "b">>>>
    /\ CarriedText(req.provider, loopLines[2]) = <<<<"c">>>>
    /\ out = <<FragmentEvent(<<"a", "b">>)>>

-----------------------------------------------------------------------------
\* the state of the session: Idle before the handler has run, Opening
\* while fetch or the body of a rejected answer is awaited, Streaming in
\* the read loop, Completed when the handler has returned after the
\* completion marker, Failed when it has returned without it (an error
\* event, a JSON error; the empty answer to a preflight request is taken
\* with them).  Closing is the part of the last step between the break of
\* the loop and sendDone().
PhaseOf(p, o) ==
    CASE p = "start" -> "Idle"
      [] p \in {"fetch", "text"} -> "Opening"
      [] p \in {"read", "loop"} -> "Streaming"
      [] p = "done" /\ o # <<>> /\ Last(o) = DoneEvent -> "Completed"
      [] OTHER -> "Failed"

Transitions ==
    { <<"Idle", "Opening">>, <<"Opening", "Opening">>,
      <<"Opening", "Streaming">>, <<"Streaming", "Streaming">>,
      <<"Streaming", "Completed">>,
      <<"Idle", "Failed">>, <<"Opening", "Failed">>, <<"Streaming", "Failed">> }

(* C18: every step of the session is one of Idle to Opening, Opening to    *)
(* Streaming, Streaming to Completed (through Closing), or Idle, Opening   *)
(* or Streaming to Failed, or stays in Opening or Streaming; Completed is  *)
(* entered only from Streaming with the whole upstream stream read; and a  *)
(* session in Completed or Failed takes no further step: it reads no       *)
(* chunk and writes no event.                                              *)
C18_StateMachine ==
    [][/\ <<PhaseOf(pc, out), PhaseOf(pc', out')>> \in Transitions
       /\ PhaseOf(pc', out') = "Completed" =>
             (readPos = Len(UpBytes) /\ readPos' = readPos /\ upBody' = "closed")
       /\ PhaseOf(pc, out) \notin {"Completed", "Failed"}]_vars

\* a session that went through every state up to Completed
C18_Witness ==
    /\ PhaseOf(pc, out) = "Completed"
    /\ Len(out) = 3
    /\ readPos = Len(UpBytes)
    /\ upTail # <<>>

-----------------------------------------------------------------------------
(* C19: when the stream ends on a line without its line separator, that    *)
(* line stays in the buffer and is never parsed: with the whole stream     *)
(* read the events are the fragments of the terminated lines alone, even   *)
(* when the last line is a complete well-formed payload, and end-of-stream *)
(* gives the completion marker and nothing else.                           *)
C19_TrailingLineDiscarded ==
    upTail # <<>> =>
        /\ (Streaming /\ readPos = Len(UpBytes)) =>
              /\ buffer = upTail
              /\ out = AsFragments(ExpectedTexts(req.provider, upLines))
        /\ Completed =>
              /\ buffer = upTail
              /\ out = AsFragments(ExpectedTexts(req.provider, upLines))
                            \o <<DoneEvent>>

\* a terminated payload line, then a well-formed payload without its line
\* separator: one fragment and the completion marker
C19_Witness ==
    /\ Completed
    /\ upLines = <<PayloadLine(req.provider, <<"a", "b">>)>>
    /\ upTail = PayloadLine(req.provider, <<"c">>)
    /\ ParseJSON(Trim(Slice(upTail, 6))).ok
    /\ out = <<FragmentEvent(<<"a", "b">>), DoneEvent>>

\* 'data: [DONE]'
SentinelLine == DataPrefix \o <<"[DONE]">>

(* C20: in a stream that has the sentinel line 'data: [DONE]', the         *)
(* sentinel gives no fragment and no error and does not end the session:   *)
(* while streaming only fragments are written, the completion marker is    *)
(* written last and only with the whole stream read, and the payload lines *)
(* after the sentinel are forwarded like those before it.                  *)
C20_SentinelIsNoOp ==
    (\E i \in DOMAIN upLines : upLines[i] = SentinelLine) =>
        /\ Streaming => \A k \in DOMAIN out : IsFragment(out[k])
        /\ \A k \in DOMAIN out :
              out[k].kind = "done" =>
                  (k = Len(out) /\ pc = "done" /\ readPos = Len(UpBytes))
        /\ (Streaming /\ readPos = Len(UpBytes)) =>
              Len(out) = Len(ExpectedTexts(req.provider, upLines))
        /\ Completed =>
              Front(out) = AsFragments(ExpectedTexts(req.provider, upLines))

\* the sentinel first, a payload line after it: its fragment is forwarded
\* and the session completes at end-of-stream
C20_Witness ==
    /\ Completed
    /\ upLines = <<SentinelLine, PayloadLine(req.provider, <<"a", "b">>)>>
    /\ out = <<FragmentEvent(<<"a", "b">>), DoneEvent>>

-----------------------------------------------------------------------------
\* line.startsWith('data: ')
IsEventLine(line) == StartsWith(line, DataPrefix)

\* the lines of a stream less those that are not event lines
EventLines(lines) == SelectSeq(lines, IsEventLine)

(* C21: a line that is empty or does not begin with 'data: ' gives no      *)
(* fragment and no error event and leaves no trace: at every read the      *)
(* events written are those the event lines read so far give by            *)
(* themselves, the buffer holds only what follows the last line separator, *)
(* and the session completes as on the stream without those lines.         *)
C21_OtherLinesFiltered ==
    LET seen == LinesWithin(upLines, readPos)
    IN  /\ Streaming =>
              /\ out = ProcessLines(req.provider, EventLines(seen))
              /\ \A k \in DOMAIN out : IsFragment(out[k])
              /\ buffer = SubSeq(UpBytes, Len(Flatten(seen)) + 1, readPos)
        /\ Completed =>
              out = ProcessLines(req.provider, EventLines(upLines))
                        \o <<DoneEvent>>

\* an event name between two payload lines: both fragments, nothing else
C21_Witness ==
    /\ Completed
    /\ Len(upLines) = 3
    /\ upLines[2] = <<"e", "v", "e", "n", "t", ":", " ", "m">>
    /\ EventLines(upLines) # upLines
    /\ out = <<FragmentEvent(<<"a", "b">>), FragmentEvent(<<"c">>), DoneEvent>>

-----------------------------------------------------------------------------
\* the text written in a payload at the place of the adapter's path: what
\* stands between the opening and the closing of the adapter's payload
WrittenText(provider, line) ==
    LET raw == Slice(line, 6)
    IN  IF Len(raw) >= 2 /\ raw[1] = Open(provider)
           /\ raw[Len(raw)] = Close(provider)
        THEN Inner(raw) ELSE <<>>

\* one fragment for each line with non-empty text there, none for the others
RECURSIVE OnePerText(_, _)
OnePerText(provider, lines) ==
    IF lines = <<>> THEN <<>>
    ELSE (IF WrittenText(provider, lines[1]) # <<>>
          THEN <<FragmentEvent(WrittenText(provider, lines[1]))>> ELSE <<>>)
         \o OnePerText(provider, Tail(lines))

AllParse(lines) ==
    \A k \in DOMAIN lines :
        StartsWith(lines[k], DataPrefix) /\ ParseJSON(Slice(lines[k], 6)).ok

(* C22: a payload that parses gives exactly one fragment when it carries   *)
(* non-empty text at the path of the adapter and none otherwise; a payload *)
(* with a segment of the path absent, or with empty text, gives no         *)
(* fragment and no error event.                                            *)
C22_FragmentIffText ==
    LET seen == LinesWithin(upLines, readPos)
    IN  (pc \in {"read", "done"} /\ Ok(upStatus) /\ AllParse(upLines)) =>
            /\ Fragments(out) = OnePerText(req.provider, seen)
            /\ \A k \in DOMAIN out :
                  out[k].kind = "error" => k = Len(out) /\ FailedMidStream
            /\ Completed =>
                  out = OnePerText(req.provider, upLines) \o <<DoneEvent>>

\* a payload without content at the path and then a payload with text
C22_Witness ==
    /\ Completed
    /\ Len(upLines) = 2
    /\ AllParse(upLines)
    /\ Slice(upLines[1], 6) \in
          { <<"{\"candidates\":[{\"content\":{\"role\":\"model\"}}]}">>,
            <<"{\"choices\":[{\"delta\":{}}]}">> }
    /\ out = <<FragmentEvent(<<"a", "b">>), DoneEvent>>

-----------------------------------------------------------------------------
(* C23: an upstream answer with status 500 or higher is reported as the    *)
(* upstream being unavailable whatever its body contains: in particular    *)
(* it is never reported as quota exhaustion, for either adapter.           *)
C23_Unavailable ==
    (Rejected /\ upStatus >= 500) =>
        (Len(out) = 1 /\ out[1].kind = "error" /\ ~ReportsQuota(out[1]))

-----------------------------------------------------------------------------
\* the message of a body written in the error shape of the vendors
VendorMessage(body) ==
    IF Between(body, EOpen, EClose) THEN Inner(body) ELSE <<>>

(* C24: an upstream answer whose status is none of 401, 403, 429 and 500   *)
(* or higher, and whose body is written in the error shape with a message, *)
(* is reported by one error event that carries that message verbatim.      *)
C24_UnknownVerbatim ==
    (Rejected /\ upStatus \notin {401, 403, 429} /\ upStatus < 500
        /\ VendorMessage(errText[1]) # <<>>) =>
        out = <<ErrorEvent(VendorMessage(errText[1]))>>

-----------------------------------------------------------------------------
\* the handler has called the adapter's upstream
Called(provider) == req.provider = provider /\ fetched # <<>>

\* the number of synthetic turns before the prior turns
Seeded == IF req.systemPrompt # <<>> THEN 2 ELSE 0

(* C25: the turn list sent to Gemini is, in order, the instruction turn    *)
(* and its acknowledgement exactly when a system instruction is given,     *)
(* then every prior turn in its order with the role 'assistant' sent as    *)
(* 'model' and every other role as 'user', then the new user turn last;    *)
(* its length is the number of prior turns plus 1, plus 2 with a system    *)
(* instruction.                                                            *)
C25_GeminiTurnList ==
    Called(<<"gemini">>) =>
        LET sent == fetched[1].messages
            prior == req.history
        IN  /\ Len(fetched) = 1
            /\ Len(sent) = Len(prior) + 1 + Seeded
            /\ Seeded = 2 =>
                  /\ sent[1] = Turn("user", req.systemPrompt)
                  /\ sent[2].role = "model"
            /\ \A i \in DOMAIN prior :
                  /\ sent[Seeded + i].text = prior[i].text
                  /\ sent[Seeded + i].role =
                        IF prior[i].role = "assistant" THEN "model" ELSE "user"
            /\ sent[Len(sent)] = Turn("user", req.userMessage)

\* a system instruction, an assistant turn and a turn of another role
C25_Witness ==
    /\ Called(<<"gemini">>)
    /\ req.systemPrompt # <<>>
    /\ Len(req.history) = 2
    /\ req.history[1].role = "assistant"
    /\ req.history[2].role = "system"
    /\ Len(fetched[1].messages) = 5
    /\ fetched[1].messages[3].role = "model"
    /\ fetched[1].messages[4].role = "user"

-----------------------------------------------------------------------------
(* C26: the message list sent to OpenAI is, in order, one system message   *)
(* exactly when a system instruction is given, then every prior turn       *)
(* unchanged in role, text and order, then the new user turn last, and     *)
(* the request asks for incremental delivery.                              *)
C26_OpenAIMessageList ==
    Called(<<"openai">>) =>
        LET sent == fetched[1].messages
            lead == IF req.systemPrompt # <<>> THEN 1 ELSE 0
        IN  /\ Len(fetched) = 1
            /\ Len(sent) = lead + Len(req.history) + 1
            /\ lead = 1 => sent[1] = Turn("system", req.systemPrompt)
            /\ SubSeq(sent, lead + 1, lead + Len(req.history)) = req.history
            /\ sent[Len(sent)] = Turn("user", req.userMessage)
            /\ fetched[1].stream

\* a system instruction before two prior turns, one of them not of a
\* conversation role
C26_Witness ==
    /\ Called(<<"openai">>)
    /\ req.systemPrompt # <<>>
    /\ Len(req.history) = 2
    /\ req.history[1].role = "system"
    /\ req.history[2].role = "assistant"
    /\ Len(fetched[1].messages) = 4
    /\ fetched[1].messages[2] = req.history[1]
    /\ fetched[1].stream

-----------------------------------------------------------------------------
(* C27: the buffer of the pending line is bounded by a maximum of its own: *)
(* while the session streams it never holds a run of MaxFlood bytes, the   *)
(* longest run the upstream sends without a line separator; the session    *)
(* has failed before.                                                      *)
C27_BufferBounded == Streaming => Len(buffer) < MaxFlood

-----------------------------------------------------------------------------
\* verifyToken returned null
ReturnedNull(v) == ~v.result.ok

(* C28: a token verified under the secret it was signed with gives back    *)
(* its payload while the time is not past the expiry of the payload, and   *)
(* null once it is; null is returned for a token whose payload part or     *)
(* signature part is not the one that was signed, for a token signed with  *)
(* another secret, and for a token that has not exactly two parts.         *)
C28_TokenRoundTrip ==
    (signed # <<>> /\ verified # <<>>) =>
        LET p == signed[1].payload
            issued == signToken(p, signed[1].secret)
            v == verified[1]
        IN  /\ (v.token = issued /\ signed[1].secret = env.AGENT_API_KEY) =>
                  IF v.at <= p.exp
                  THEN v.result = [ok |-> TRUE, payload |-> p]
                  ELSE ReturnedNull(v)
            /\ (v.token = issued /\ signed[1].secret # env.AGENT_API_KEY) =>
                  ReturnedNull(v)
            /\ Len(v.token) # 2 => ReturnedNull(v)
            /\ (Len(v.token) = 2 /\ v.token[1] # issued[1]) => ReturnedNull(v)
            /\ (Len(v.token) = 2 /\ v.token[2] # issued[2]) => ReturnedNull(v)

-----------------------------------------------------------------------------
\* a digest was written into the profile less than 24 hours ago
CachedWithinDay == cached # <<>> /\ now - cached[1].at < Day

(* C29: once a digest has been generated and written into the profile of   *)
(* the user, every GET digest request within the following 24 hours        *)
(* returns that digest and does not invoke the generator, whatever         *)
(* requests of the user came in between.                                   *)
C29_DigestCache ==
    [][(GetDigest /\ CachedWithinDay) =>
           (answer'.digest = cached[1].digest /\ generated' = generated)]_vars

-----------------------------------------------------------------------------
(* C30: pushFile sends its write only after a lookup that returned success *)
(* or 404, with the sha that was found after a success and without a sha   *)
(* after a 404; after a lookup with any other status the status is         *)
(* returned to the caller and nothing is written.                          *)
C30_WriteOnlyAfterLookup ==
    /\ puts # <<>> =>
          /\ shaStatus \in {200, 404}
          /\ Len(puts) = 1
          /\ puts[1].sha = sha
          /\ shaStatus = 404 => sha = <<>>
    /\ (pushPc = "done" /\ shaStatus \notin {0, 200, 404}) =>
          (pushRes = shaStatus /\ puts = <<>>)

=============================================================================
